---- MODULE Spec2Model ----
(***************************************************************************)
(* phishyfs: the file-type registry and the ScanManager of scanmanager.py, *)
(* and the batch driver ScanFilesJSON of phfs.py.                          *)
(*                                                                         *)
(* A path is a sequence of one-character strings, so that the extension    *)
(* extraction (os.path.splitext, str.casefold, ext[0], ext[1:]) is         *)
(* computed character by character as the code computes it.  A dict is a   *)
(* function whose domain is the set of its keys.  A reference to a         *)
(* descriptor is its position in ScanManager.types; None is position 0.    *)
(***************************************************************************)
EXTENDS Integers, Sequences, FiniteSets, TLC

VARIABLES
    types,      \* ScanManager.types: the registry, a list of descriptors
    op,         \* the call that ran last: "init", "get_type", "scan", "ScanFilesJSON"
    filepath,   \* the argument of get_type / scan
    ext,        \* get_type's local ext when it returned or raised
    ftype,      \* the descriptor get_type returned (a position in types, or None)
    out,        \* scan's dict `out` when it returned or raised
    raised,     \* the exception that left the call, or NoException
    pathlist,   \* the argument of ScanFilesJSON
    outlist,    \* ScanFilesJSON's list `out` when it ended or raised
    dumped,     \* the lists ScanFilesJSON handed to json.dumps and printed
    calls,      \* history: the number of get_type / scan calls made on the manager
    faults      \* history: the number of those calls that raised

vars ==
    << types, op, filepath, ext, ftype, out, raised, pathlist, outlist, dumped,
       calls, faults >>

----------------------------------------------------------------------------
(* Bounds of the model.                                                    *)

\* longest path over Alphabet given to one get_type / scan call
MaxLen == 5
\* longest stem put in front of '.' + extension
MaxStem == 3
\* longest path in a sequence of calls on one manager, and the number of calls
MaxSeqLen == 3
MaxCalls == 3
\* largest threat_base a descriptor is given under SpecTier
MaxThreat == 41
\* longest list of paths given to ScanFilesJSON, and longest path in it
MaxBatch == 2
MaxBatchLen == 3

----------------------------------------------------------------------------
(* Characters.                                                             *)

LowerCase ==
    << "a", "b", "c", "d", "e", "f", "g", "h", "i", "j", "k", "l", "m",
       "n", "o", "p", "q", "r", "s", "t", "u", "v", "w", "x", "y", "z" >>

UpperCase ==
    << "A", "B", "C", "D", "E", "F", "G", "H", "I", "J", "K", "L", "M",
       "N", "O", "P", "Q", "R", "S", "T", "U", "V", "W", "X", "Y", "Z" >>

\* a case-preserving casefold, the mutant of casefold_char
casefold_char_identity(c) == c

\* str.casefold on one ASCII character: an upper-case letter becomes its
\* lower-case letter, every other character is kept
casefold_char(c) ==
    IF \E i \in 1..Len(UpperCase) : UpperCase[i] = c
    THEN LowerCase[CHOOSE i \in 1..Len(UpperCase) : UpperCase[i] = c]
    ELSE c

\* str.casefold
casefold(s) == [i \in 1..Len(s) |-> casefold_char(s[i])]

----------------------------------------------------------------------------
(* The file types.                                                         *)

None == 0

NoException == [exc |-> "", line |-> 0]

\* FileType.__init__
FileType ==
    [ name        |-> "",
      extensions  |-> << >>,
      threat_base |-> 0,
      attributes  |-> << >>,
      platform    |-> "" ]

PlainTextType ==
    [ FileType EXCEPT
        !.name = "Plain text",
        !.extensions = << <<"a","d","o","c">>, <<"c","o","n","f","i","g">>,
                          <<"i","n","i">>, <<"m","d">>, <<"t","x","t">> >> ]

ScriptType ==
    [ FileType EXCEPT
        !.name = "Programming script",
        !.extensions = << <<"c">>, <<"c","p","p">>, <<"c","s","s">>, <<"h">>,
                          <<"h","p","p">>, <<"j","s">>, <<"p","h","p">>,
                          <<"p","s","1">>, <<"p","y">>, <<"r","b">>,
                          <<"r","s">>, <<"s","h">> >>,
        !.attributes = << "script" >>,
        !.threat_base = 1 ]

JPEGType ==
    [ FileType EXCEPT
        !.name = "JPEG Photo",
        !.extensions = << <<"j","p","g">>, <<"j","p","e","g">> >>,
        !.attributes = << "hidden-info" >>,
        !.threat_base = 1 ]

\* a PDF descriptor with the threat base of a harmless type, the mutant of PDFType
PDFTypeHarmless ==
    [ FileType EXCEPT
        !.name = "Adobe PDF Document",
        !.extensions = << <<"p","d","f">> >>,
        !.attributes = << "macros", "hidden-info" >> ]

PDFType ==
    [ FileType EXCEPT
        !.name = "Adobe PDF Document",
        !.extensions = << <<"p","d","f">> >>,
        !.attributes = << "macros", "hidden-info" >>,
        !.threat_base = 3 ]

WordType ==
    [ FileType EXCEPT
        !.name = "Microsoft Word Document",
        !.extensions = << <<"d","o","c">>, <<"d","o","c","x">> >>,
        !.attributes = << "macros", "hidden-info" >>,
        !.threat_base = 3 ]

\* ScanManager.__init__ and _load_types: the list after the five appends
load_types ==
    Append(Append(Append(Append(Append(<< >>,
        PlainTextType), ScriptType), JPEGType), PDFType), WordType)

----------------------------------------------------------------------------
(* os.path.splitext, as posixpath computes it.                             *)

\* str.rfind, 1-based: the last position of ch in p, 0 when there is none
\* (Python's 0-based index plus one, so that -1 becomes 0)
rfind(p, ch) ==
    IF \E i \in 1..Len(p) : p[i] = ch
    THEN CHOOSE i \in 1..Len(p) : p[i] = ch /\ \A j \in (i+1)..Len(p) : p[j] # ch
    ELSE 0

\* the loop of genericpath._splitext that skips the leading dots of the
\* filename: TRUE when a character other than '.' stands in
\* filenameIndex .. dotIndex-1
RECURSIVE has_stem(_, _, _)
has_stem(p, filenameIndex, dotIndex) ==
    IF filenameIndex < dotIndex
    THEN IF p[filenameIndex] # "."
         THEN TRUE
         ELSE has_stem(p, filenameIndex + 1, dotIndex)
    ELSE FALSE

\* a splitext that cuts at the last '.' wherever it stands, the mutant of splitext
splitext_any_dot(p) ==
    LET dotIndex == rfind(p, ".")
    IN  IF dotIndex > 0
        THEN << SubSeq(p, 1, dotIndex - 1), SubSeq(p, dotIndex, Len(p)) >>
        ELSE << p, << >> >>

\* os.path.splitext(p): <<root, ext>>
splitext(p) ==
    LET sepIndex == rfind(p, "/")
        dotIndex == rfind(p, ".")
    IN  IF dotIndex > sepIndex /\ has_stem(p, sepIndex + 1, dotIndex)
        THEN << SubSeq(p, 1, dotIndex - 1), SubSeq(p, dotIndex, Len(p)) >>
        ELSE << p, << >> >>

----------------------------------------------------------------------------
(* ScanManager.get_type and ScanManager.scan.                              *)

\* `ext in ftype.extensions`
ext_in(e, extensions) == \E i \in 1..Len(extensions) : extensions[i] = e

\* the loop over self.types with no `return None` after it: an extension no
\* type lists falls back on the first type; the mutant of first_match
first_match_or_first(tps, e) ==
    IF \E i \in 1..Len(tps) : ext_in(e, tps[i].extensions)
    THEN CHOOSE i \in 1..Len(tps) :
            /\ ext_in(e, tps[i].extensions)
            /\ \A j \in 1..(i-1) : ~ext_in(e, tps[j].extensions)
    ELSE 1

\* `for ftype in self.types: if ext in ftype.extensions: return ftype`, then
\* `return None`
first_match(tps, e) ==
    IF \E i \in 1..Len(tps) : ext_in(e, tps[i].extensions)
    THEN CHOOSE i \in 1..Len(tps) :
            /\ ext_in(e, tps[i].extensions)
            /\ \A j \in 1..(i-1) : ~ext_in(e, tps[j].extensions)
    ELSE None

\* get_type(filepath) on a manager whose types are tps: the local ext, the
\* returned reference and the exception raised.  ext[0] of an empty string
\* raises IndexError at line 176.
get_type(tps, path) ==
    LET ext0 == casefold(splitext(path)[2])
    IN  IF ext0 = << >>
        THEN [ext |-> ext0, ret |-> None,
              raised |-> [exc |-> "IndexError", line |-> 176]]
        ELSE LET ext1 == IF ext0[1] = "." THEN Tail(ext0) ELSE ext0
             IN  [ext |-> ext1, ret |-> first_match(tps, ext1),
                  raised |-> NoException]

\* the if/elif chain with the top threshold taken inclusively, the mutant of danger
danger_inclusive(threat_level) ==
    IF threat_level >= 30 THEN "High"
    ELSE IF threat_level > 20 THEN "Moderate"
    ELSE IF threat_level > 10 THEN "Low"
    ELSE IF threat_level > 0 THEN "Minimal"
    ELSE "None"

\* the if/elif chain of scan that maps threat_level to out['danger']
danger(threat_level) ==
    IF threat_level > 30 THEN "High"
    ELSE IF threat_level > 20 THEN "Moderate"
    ELSE IF threat_level > 10 THEN "Low"
    ELSE IF threat_level > 0 THEN "Minimal"
    ELSE "None"

\* a scan that reads threat_base as 0 when no type was found, the mutant of scan
scan_defaulting(tps, path) ==
    LET g    == get_type(tps, path)
        out0 == ("name" :> path)
    IN  IF g.raised # NoException
        THEN [ext |-> g.ext, ftype |-> None, out |-> out0, raised |-> g.raised]
        ELSE LET out1 == IF g.ret # None
                         THEN ("description" :> tps[g.ret].name)
                              @@ ("supported" :> TRUE) @@ out0
                         ELSE out0
                 tl   == IF g.ret # None THEN tps[g.ret].threat_base ELSE 0
             IN  [ext |-> g.ext, ftype |-> g.ret,
                  out |-> ("danger" :> danger(tl)) @@ out1,
                  raised |-> NoException]

\* a scan that does not store the description, the mutant of scan
scan_no_description(tps, path) ==
    LET g    == get_type(tps, path)
        out0 == ("name" :> path)
    IN  IF g.raised # NoException
        THEN [ext |-> g.ext, ftype |-> None, out |-> out0, raised |-> g.raised]
        ELSE LET out1 == IF g.ret # None
                         THEN ("supported" :> TRUE) @@ out0
                         ELSE out0
             IN  IF g.ret = None
                 THEN [ext |-> g.ext, ftype |-> None, out |-> out1,
                       raised |-> [exc |-> "AttributeError", line |-> 192]]
                 ELSE [ext |-> g.ext, ftype |-> g.ret,
                       out |-> ("danger" :> danger(tps[g.ret].threat_base)) @@ out1,
                       raised |-> NoException]

\* scan(filepath) on a manager whose types are tps: the locals ext (of
\* get_type), ftype and out, and the exception raised.  An exception of
\* get_type passes through scan (ftype is then never bound); reading
\* None.threat_base raises AttributeError at line 192.
scan(tps, path) ==
    LET g    == get_type(tps, path)
        out0 == ("name" :> path)
    IN  IF g.raised # NoException
        THEN [ext |-> g.ext, ftype |-> None, out |-> out0, raised |-> g.raised]
        ELSE LET out1 == IF g.ret # None
                         THEN ("description" :> tps[g.ret].name)
                              @@ ("supported" :> TRUE) @@ out0
                         ELSE out0
             IN  IF g.ret = None
                 THEN [ext |-> g.ext, ftype |-> None, out |-> out1,
                       raised |-> [exc |-> "AttributeError", line |-> 192]]
                 ELSE [ext |-> g.ext, ftype |-> g.ret,
                       out |-> ("danger" :> danger(tps[g.ret].threat_base)) @@ out1,
                       raised |-> NoException]

\* the loop of ScanFilesJSON from path i on, acc being the list `out`: an
\* exception of scan leaves the loop and the function
RECURSIVE scan_paths(_, _, _, _)
scan_paths(tps, pl, i, acc) ==
    IF i > Len(pl)
    THEN [outlist |-> acc, raised |-> NoException]
    ELSE LET r == scan(tps, pl[i])
         IN  IF r.raised # NoException
             THEN [outlist |-> acc, raised |-> r.raised]
             ELSE scan_paths(tps, pl, i + 1, Append(acc, r.out))

----------------------------------------------------------------------------
(* The inputs.                                                             *)

Alphabet == {".", "/", "c", "C", "x"}
StemAlphabet == {".", "/", "a"}
BatchAlphabet == {".", "c", "x"}

\* the strings over S of length at most n
Strings(S, n) == UNION {[1..k -> S] : k \in 0..n}

ToUpper(c) ==
    IF \E i \in 1..Len(LowerCase) : LowerCase[i] = c
    THEN UpperCase[CHOOSE i \in 1..Len(LowerCase) : LowerCase[i] = c]
    ELSE c

\* v is e with each letter in either case
IsCaseVariant(v, e) ==
    /\ Len(v) = Len(e)
    /\ \A i \in 1..Len(e) : v[i] = e[i] \/ v[i] = ToUpper(e[i])

RECURSIVE CaseVariants(_)
CaseVariants(e) ==
    IF e = << >>
    THEN {<< >>}
    ELSE {<<c>> \o r : c \in {Head(e), ToUpper(Head(e))}, r \in CaseVariants(Tail(e))}

\* every extension of the registry, in every upper/lower-case variant
RegistryExtensions ==
    UNION {UNION {CaseVariants(load_types[d].extensions[i]) :
                     i \in 1..Len(load_types[d].extensions)} :
              d \in 1..Len(load_types)}

\* stem + '.' + extension, for the non-empty stems over StemAlphabet
ExtPaths ==
    {s \o <<".">> \o v : s \in Strings(StemAlphabet, MaxStem) \ {<< >>},
                           v \in RegistryExtensions}

AlphaPaths == Strings(Alphabet, MaxLen)

InputPaths == AlphaPaths \cup ExtPaths

SeqPaths == Strings(BatchAlphabet, MaxSeqLen)

PathLists == Strings(Strings(BatchAlphabet, MaxBatchLen), MaxBatch)

\* one path per descriptor of the registry
TierPaths == {<<"a", ".">> \o load_types[d].extensions[1] : d \in 1..Len(load_types)}

\* the registry with one descriptor's threat_base set to tb
TierTypes ==
    {[load_types EXCEPT ![d].threat_base = tb] :
        d \in 1..Len(load_types), tb \in 0..MaxThreat}

----------------------------------------------------------------------------
(* The operations.                                                         *)

NoDict == << >>

Fault(r) == IF r = NoException THEN 0 ELSE 1

\* no call has run yet
Constructed ==
    /\ op = "init"
    /\ ext = << >>
    /\ ftype = None
    /\ out = NoDict
    /\ raised = NoException
    /\ outlist = << >>
    /\ dumped = << >>
    /\ calls = 0
    /\ faults = 0

\* a get_type that moves the type it found to the front of self.types, the
\* mutant of GetType
GetTypeMoveToFront(p) ==
    LET g == get_type(types, p)
    IN  /\ op' = "get_type"
        /\ filepath' = p
        /\ ext' = g.ext
        /\ ftype' = g.ret
        /\ raised' = g.raised
        /\ out' = NoDict
        /\ calls' = calls + 1
        /\ faults' = faults + Fault(g.raised)
        /\ types' = IF g.ret = None
                    THEN types
                    ELSE <<types[g.ret]>>
                         \o SubSeq(types, 1, g.ret - 1)
                         \o SubSeq(types, g.ret + 1, Len(types))
        /\ UNCHANGED <<pathlist, outlist, dumped>>

\* scanner.get_type(p)
GetType(p) ==
    LET g == get_type(types, p)
    IN  /\ op' = "get_type"
        /\ filepath' = p
        /\ ext' = g.ext
        /\ ftype' = g.ret
        /\ raised' = g.raised
        /\ out' = NoDict
        /\ calls' = calls + 1
        /\ faults' = faults + Fault(g.raised)
        /\ UNCHANGED <<types, pathlist, outlist, dumped>>

\* scanner.scan(p)
Scan(p) ==
    LET r == scan(types, p)
    IN  /\ op' = "scan"
        /\ filepath' = p
        /\ ext' = r.ext
        /\ ftype' = r.ftype
        /\ out' = r.out
        /\ raised' = r.raised
        /\ calls' = calls + 1
        /\ faults' = faults + Fault(r.raised)
        /\ UNCHANGED <<types, pathlist, outlist, dumped>>

\* ScanFilesJSON(pl): a ScanManager of its own, the loop, then the print of
\* json.dumps(out) when no scan raised
ScanFilesJSON(pl) ==
    LET scanner == load_types
        r       == scan_paths(scanner, pl, 1, << >>)
    IN  /\ op' = "ScanFilesJSON"
        /\ pathlist' = pl
        /\ outlist' = r.outlist
        /\ raised' = r.raised
        /\ dumped' = IF r.raised = NoException
                     THEN Append(dumped, r.outlist)
                     ELSE dumped
        /\ UNCHANGED <<types, filepath, ext, ftype, out, calls, faults>>

----------------------------------------------------------------------------
(* Spec: one call of get_type or scan on a fresh manager, for every path   *)
(* of InputPaths.                                                          *)

Init ==
    /\ Constructed
    /\ types = load_types
    /\ filepath \in InputPaths
    /\ pathlist = << >>

Next ==
    \/ op = "init" /\ GetType(filepath)
    \/ op = "init" /\ Scan(filepath)

Spec == Init /\ [][Next]_vars

(* SpecSeq: any sequence of at most MaxCalls calls on one manager.         *)

InitSeq ==
    /\ Constructed
    /\ types = load_types
    /\ filepath = << >>
    /\ pathlist = << >>

NextSeq ==
    \/ \E p \in SeqPaths : calls < MaxCalls /\ GetType(p)
    \/ \E p \in SeqPaths : calls < MaxCalls /\ Scan(p)

SpecSeq == InitSeq /\ [][NextSeq]_vars

(* SpecTier: one call on a manager one of whose descriptors has any        *)
(* threat_base of 0..MaxThreat.                                            *)

InitTier ==
    /\ Constructed
    /\ types \in TierTypes
    /\ filepath \in TierPaths
    /\ pathlist = << >>

SpecTier == InitTier /\ [][Next]_vars

(* SpecBatch: one ScanFilesJSON call, for every list of PathLists.         *)

InitBatch ==
    /\ Constructed
    /\ types = load_types
    /\ filepath = << >>
    /\ pathlist \in PathLists

NextBatch == op = "init" /\ ScanFilesJSON(pathlist)

SpecBatch == InitBatch /\ [][NextBatch]_vars

----------------------------------------------------------------------------
(* What the claims speak of, stated on the path itself.                    *)

Returned == raised = NoException

DangerLabels == {"None", "Minimal", "Low", "Moderate", "High"}

\* the banding of the threat levels
TierOf(tb) ==
    CASE tb = 0 -> "None"
      [] tb \in 1..10 -> "Minimal"
      [] tb \in 11..20 -> "Low"
      [] tb \in 21..30 -> "Moderate"
      [] tb >= 31 -> "High"

BoundaryTiers ==
    << <<0, "None">>, <<1, "Minimal">>, <<10, "Minimal">>, <<11, "Low">>,
       <<20, "Low">>, <<21, "Moderate">>, <<30, "Moderate">>, <<31, "High">> >>

ToLower(c) ==
    IF \E i \in 1..Len(UpperCase) : UpperCase[i] = c
    THEN LowerCase[CHOOSE i \in 1..Len(UpperCase) : UpperCase[i] = c]
    ELSE c

\* p[k] is the last occurrence of ch in p
IsLast(p, k, ch) ==
    /\ k \in 1..Len(p)
    /\ p[k] = ch
    /\ \A j \in (k+1)..Len(p) : p[j] # ch

\* the position before the filename (the final path component) of p
FilenameStart(p) ==
    IF \E k \in 1..Len(p) : p[k] = "/"
    THEN CHOOSE k \in 1..Len(p) : IsLast(p, k, "/")
    ELSE 0

\* the filename of p
Filename(p) == SubSeq(p, FilenameStart(p) + 1, Len(p))

\* the case-folded substring after the last '.' of s, for an s that holds a '.'
AfterLastDot(s) ==
    LET k == CHOOSE k \in 1..Len(s) : IsLast(s, k, ".")
    IN  [i \in 1..(Len(s) - k) |-> ToLower(s[k + i])]

HasDot(s) == \E k \in 1..Len(s) : s[k] = "."

\* a character other than '.' stands before the last '.' of s
DotAfterStem(s) ==
    \E k \in 1..Len(s) : IsLast(s, k, ".") /\ \E j \in 1..(k-1) : s[j] # "."

\* filepath is stem + '.' + a case variant of extension i of descriptor d,
\* the '.' standing at position k
IsStemDotExt(p, k, d, i) ==
    /\ k \in 2..Len(p)
    /\ p[k] = "."
    /\ IsCaseVariant(SubSeq(p, k + 1, Len(p)), types[d].extensions[i])

\* the stem p[1..k-1] has a character other than '.' in its final component
StemHasName(p, k) ==
    \E j \in 1..(k-1) :
        /\ p[j] \notin {".", "/"}
        /\ \A m \in j..(k-1) : p[m] # "/"

\* no descriptor of the registry lists e
Unlisted(e) ==
    \A d \in 1..Len(types) : \A i \in 1..Len(types[d].extensions) :
        types[d].extensions[i] # e

----------------------------------------------------------------------------
(* The claims.                                                             *)

\* C1: the danger label scan writes is 'None' for threat_base 0, 'Minimal'
\* for 1..10, 'Low' for 11..20, 'Moderate' for 21..30 and 'High' from 31 on,
\* and the boundary values 0, 1, 10, 11, 20, 21, 30, 31 map to None, Minimal,
\* Minimal, Low, Low, Moderate, Moderate, High.
C1_DangerTiers ==
    (op = "scan" /\ Returned) =>
        /\ out.danger = TierOf(types[ftype].threat_base)
        /\ \A b \in 1..Len(BoundaryTiers) :
              types[ftype].threat_base = BoundaryTiers[b][1]
                  => out.danger = BoundaryTiers[b][2]

C1_Witness ==
    /\ op = "scan"
    /\ Returned
    /\ types[ftype].threat_base = 31
    /\ out.danger = "High"

\* C2 as stated: get_type on stem + '.' + e, for any non-empty stem and any
\* case variant of an extension e of a descriptor, returns that descriptor.
C2_AnyStem ==
    op = "get_type" =>
        \A d \in 1..Len(types) : \A i \in 1..Len(types[d].extensions) :
            \A k \in 2..Len(filepath) :
                IsStemDotExt(filepath, k, d, i) => (Returned /\ ftype = d)

\* C2 as amended: get_type on stem + '.' + e returns the descriptor that
\* lists e, in every case variant of e, when the final path component of the
\* stem holds a character other than '.'.
C2_ResolveListed ==
    op = "get_type" =>
        \A d \in 1..Len(types) : \A i \in 1..Len(types[d].extensions) :
            \A k \in 2..Len(filepath) :
                (IsStemDotExt(filepath, k, d, i) /\ StemHasName(filepath, k))
                    => (Returned /\ ftype = d)

C2_Witness ==
    /\ op = "get_type"
    /\ filepath = <<"/", "a", ".", "C", "o", "N", "f", "I", "g">>
    /\ Returned
    /\ ftype = 1

\* C3 as stated: scanning a path with the extension 'pdf' returns a record
\* with description 'Adobe PDF Document' and danger 'Moderate'.
C3_PdfModerate ==
    (op = "scan" /\ ext = <<"p", "d", "f">>) =>
        /\ Returned
        /\ out.description = "Adobe PDF Document"
        /\ out.danger = "Moderate"

\* C3 as amended: scanning a path with the extension 'pdf' returns a record
\* with description 'Adobe PDF Document' and danger 'Minimal'.
C3_PdfMinimal ==
    (op = "scan" /\ ext = <<"p", "d", "f">>) =>
        /\ Returned
        /\ out.description = "Adobe PDF Document"
        /\ out.danger = "Minimal"

C3_Witness ==
    /\ op = "scan"
    /\ filepath = <<"a", ".", "P", "d", "f">>
    /\ Returned
    /\ out.danger = "Minimal"

\* C4: ScanFilesJSON over N paths prints N records in input order, whatever
\* happens for any single path.
C4_BatchIsolation ==
    op = "ScanFilesJSON" =>
        /\ Returned
        /\ Len(dumped) = 1
        /\ Len(dumped[1]) = Len(pathlist)
        /\ \A i \in 1..Len(pathlist) : dumped[1][i].name = pathlist[i]

\* C5: every record scan returns has 'name' equal to the input path and a
\* 'danger' among the five labels; 'supported' and 'description' are present
\* exactly when a descriptor was resolved, and then supported is true and
\* description is the descriptor's name.
C5_RecordShape ==
    (op = "scan" /\ Returned) =>
        /\ DOMAIN out \subseteq {"name", "supported", "description", "danger"}
        /\ "name" \in DOMAIN out
        /\ out.name = filepath
        /\ "danger" \in DOMAIN out
        /\ out.danger \in DangerLabels
        /\ ("supported" \in DOMAIN out) <=> (ftype # None)
        /\ ("description" \in DOMAIN out) <=> (ftype # None)
        /\ ftype # None =>
              /\ out.supported = TRUE
              /\ out.description = types[ftype].name

C5_Witness ==
    /\ op = "scan"
    /\ Returned
    /\ filepath = <<"a", "/", "a", ".", "J", "P", "G">>
    /\ out.description = "JPEG Photo"
    /\ out.supported = TRUE

\* C6: for a path whose extension is non-empty and in no descriptor's list,
\* get_type returns None and raises nothing.
C6_UnlistedIsNone ==
    (op = "get_type" /\ HasDot(Filename(filepath))
        /\ DotAfterStem(Filename(filepath))
        /\ AfterLastDot(Filename(filepath)) # << >>
        /\ Unlisted(AfterLastDot(Filename(filepath))))
        => (Returned /\ ftype = None)

C6_Witness ==
    /\ op = "get_type"
    /\ filepath = <<"c", ".", "C", "x">>
    /\ ext = <<"c", "x">>
    /\ Returned
    /\ ftype = None

\* C7: for a path whose extension is empty (a filename with no '.', or a
\* dot-file), get_type returns None and raises nothing.
C7_EmptyExtensionIsNone ==
    (op = "get_type"
        /\ \/ ~HasDot(Filename(filepath))
           \/ /\ Filename(filepath)[1] = "."
              /\ ~HasDot(Tail(Filename(filepath))))
        => (Returned /\ ftype = None)

\* C8 as stated: the extension get_type looks up is the case-folded
\* substring after the last '.' of the filename, for every filename.
C8_AfterLastDot ==
    (op = "get_type" /\ HasDot(Filename(filepath)))
        => ext = AfterLastDot(Filename(filepath))

\* C8 as amended: the extension get_type computes is the case-folded
\* substring after the last '.' of the filename when a character other than
\* '.' stands before that '.' in the filename, and is empty otherwise.
C8_AfterLastDotOfNamedFile ==
    op = "get_type" =>
        ext = IF HasDot(Filename(filepath)) /\ DotAfterStem(Filename(filepath))
              THEN AfterLastDot(Filename(filepath))
              ELSE << >>

C8_Witness ==
    /\ op = "get_type"
    /\ filepath = <<"c", ".", "x", ".", "C">>
    /\ ext = <<"c">>
    /\ ftype = 2

C10_RegistryFixed ==
    /\ types = load_types
    /\ Len(types) = 5
    /\ [d \in 1..5 |-> types[d].name]
          = << "Plain text", "Programming script", "JPEG Photo",
               "Adobe PDF Document", "Microsoft Word Document" >>
    /\ op = "scan" =>
          /\ raised = scan(load_types, filepath).raised
          /\ Returned => out = scan(load_types, filepath).out

C10_Witness ==
    /\ op = "scan"
    /\ Returned
    /\ calls = 3
    /\ faults = 2
    /\ types = load_types

====
